---- MODULE Spec2Model ----
(***************************************************************************)
(* Model of the EffectController cancellation tree of src/src/effect.ts    *)
(* (same code in packages/effect-controller/src/chore/index.ts): the       *)
(* controller's cleanup list and child list, abort()'s two reverse loops,  *)
(* onAbort and its remove function, createController, and the switch       *)
(* wrapper of createAbortSwitchWrapper.                                    *)
(*                                                                         *)
(* Controllers are numbered 1..Len(ctrlInfo) in creation order, user       *)
(* cleanups 1..Len(registered) in registration order, wrappers             *)
(* 1..Len(wrapperScope).  A closure pushed on a cleanup list is a record   *)
(* [kind, id]; two closures are the same JavaScript object iff the records *)
(* are equal.  The synchronous operations are operators from heap record   *)
(* to heap record; a thrown exception is the field err of the result.      *)
(***************************************************************************)
EXTENDS Integers, Sequences, FiniteSets, TLC

\* Bounds of the model.
MaxCtrl == 3
MaxCleanup == 2
MaxWrap == 2
MaxInvoke == 3
MaxAction == 2
MaxThrow == 2
MaxDepth == 3

VARIABLES
    ctrlInfo,          \* per controller: [parent, wrapper, cb] (the references its closures capture)
    cleanupCallbacks,  \* per controller: EffectController.cleanupCallbacks
    childControllers,  \* per controller: EffectController.childControllers
    aborted,           \* per controller: EffectController._aborted
    registered,        \* per user cleanup: [scope, live, byCallback], in registration order
    removed,           \* user cleanups whose remove function took them off a list
    wrapperScope,      \* per switch wrapper: the effectContext it was created on
    currCtrl,          \* per switch wrapper: its currCtrl cell, 0 for null
    trace,             \* the user cleanups executed so far, in execution order
    observed,          \* what cleanups that call aborted() on their scope saw
    actions,           \* per act/actAsync call: its inputs, progress and result
    store,             \* per act/actAsync call: the user store whose fetch made it
    lastOp             \* the last top-level call: [op, arg, err]

vars == <<ctrlInfo, cleanupCallbacks, childControllers, aborted, registered,
          removed, wrapperScope, currCtrl, trace, observed, actions, store, lastOp>>

NoErr == "none"
ErrAbortedCreate == "aborted controller can't create child controller"
ErrNotEmpty == "cleanup callbacks not empty"
ErrProduce == "produce failed"
ErrCleanup == "cleanup failed"
ErrStack == "Maximum call stack size exceeded"
ErrType == "TypeError"

\* The callbacks handed to a switch wrapper: the two route loaders of setupApp.
\* setupHomePage registers a cleanup on the scope it is handed, the /foo loader
\* registers nothing.
Callbacks == {"home", "foo"}

Debug(c) == [kind |-> "debug", id |-> c]
Detach(c) == [kind |-> "detach", id |-> c]
Switch(w) == [kind |-> "switch", id |-> w]
User(k) == [kind |-> "user", id |-> k]
\* A user cleanup that calls createController() on the scope it is registered on.
Spawn(k) == [kind |-> "spawn", id |-> k]
\* A user cleanup that calls onAbort on the scope it is registered on.
Adder(k) == [kind |-> "adder", id |-> k]
\* A user cleanup that calls aborted() on the scope it is registered on.
Probe(k) == [kind |-> "probe", id |-> k]
\* A user cleanup that calls the remove function of the cleanup registered just before it.
Remover(k) == [kind |-> "remover", id |-> k]
\* The function createAbortSwitchWrapper of the closure controllers pushes on
\* cleanupCallbacks for wrapper w, without onAbort.
RawSwitch(w) == [kind |-> "rawSwitch", id |-> w]
\* A user cleanup that calls abort() of its own scope.
Reabort(k) == [kind |-> "reabort", id |-> k]
\* A user cleanup that throws.
Thrower(k) == [kind |-> "thrower", id |-> k]
\* The arrow function act/actAsync hands to onAbort for action a.
ActionCleanup(a) == [kind |-> "action", id |-> a]

\* What produce returns or resolves to; Fail is a throw or a rejection.
Values == {"v1", "v2"}
Fail == "fail"
Undefined == "undefined"
\* The two EffectTransaction classes.
Impls == {"effect", "package"}
\* The closure controllers of effect-util.ts and abort.ts, whose race is the same code.
Util == "util"

\* Array.prototype.indexOf, 1-based; 0 when absent.
IndexOf(seq, x) ==
    IF \E i \in 1..Len(seq) : seq[i] = x
    THEN CHOOSE i \in 1..Len(seq) : seq[i] = x /\ \A j \in 1..(i - 1) : seq[j] # x
    ELSE 0

\* splice(idx) without the count: everything from idx on is removed.
SpliceFrom(seq, i) == SubSeq(seq, 1, i - 1)

\* Array.prototype.splice(idx, 1), 1-based.
Splice(seq, i) == SubSeq(seq, 1, i - 1) \o SubSeq(seq, i + 1, Len(seq))

\* The heap the operations work on.
Heap ==
    [ctrlInfo |-> ctrlInfo, cleanupCallbacks |-> cleanupCallbacks,
     childControllers |-> childControllers, aborted |-> aborted,
     registered |-> registered, removed |-> removed,
     wrapperScope |-> wrapperScope, currCtrl |-> currCtrl,
     trace |-> trace, observed |-> observed, actions |-> actions, store |-> store, depth |-> 0, err |-> NoErr]

Throw(s, e) == [s EXCEPT !.err = e]

\* RemoveCleanup with the found index ignored: the last entry is popped.
RemoveCleanupPop(s, c, cb) ==
    LET idx == IndexOf(s.cleanupCallbacks[c], cb)
    IN  IF idx >= 1
        THEN [s EXCEPT !.cleanupCallbacks[c] = SubSeq(@, 1, Len(@) - 1)]
        ELSE s

\* removeCleanup of onAbort: indexOf the wrapped cleanup, splice it when found.
RemoveCleanup(s, c, cb) ==
    LET idx == IndexOf(s.cleanupCallbacks[c], cb)
    IN  IF idx >= 1
        THEN [s EXCEPT !.cleanupCallbacks[c] = Splice(@, idx)]
        ELSE s

\* onAbort: push the wrapped cleanup on the list, whatever _aborted is.
PushCleanup(s, c, cb) ==
    [s EXCEPT !.cleanupCallbacks[c] = Append(@, cb)]

\* onAbort called with a user cleanup; the next cleanup number names it.
OnAbortUser(s, c, byCb) ==
    LET k == Len(s.registered) + 1
        s1 == [s EXCEPT !.registered =
                  Append(@, [scope |-> c, live |-> ~s.aborted[c], byCallback |-> byCb])]
    IN  PushCleanup(s1, c, User(k))

\* onAbort called with a cleanup that creates a child of the same scope.
OnAbortSpawn(s, c) ==
    LET k == Len(s.registered) + 1
        s1 == [s EXCEPT !.registered =
                  Append(@, [scope |-> c, live |-> ~s.aborted[c], byCallback |-> FALSE])]
    IN  PushCleanup(s1, c, Spawn(k))

\* onAbort called with a cleanup that registers another cleanup on the same scope.
OnAbortAdder(s, c) ==
    LET k == Len(s.registered) + 1
        s1 == [s EXCEPT !.registered =
                  Append(@, [scope |-> c, live |-> ~s.aborted[c], byCallback |-> FALSE])]
    IN  PushCleanup(s1, c, Adder(k))

\* onAbort called with a cleanup that reads aborted() of the same scope.
OnAbortProbe(s, c) ==
    LET k == Len(s.registered) + 1
        s1 == [s EXCEPT !.registered =
                  Append(@, [scope |-> c, live |-> ~s.aborted[c], byCallback |-> FALSE])]
    IN  PushCleanup(s1, c, Probe(k))

\* onAbort called with a cleanup that calls the remove function of cleanup k - 1.
OnAbortRemover(s, c) ==
    LET k == Len(s.registered) + 1
        s1 == [s EXCEPT !.registered =
                  Append(@, [scope |-> c, live |-> ~s.aborted[c], byCallback |-> FALSE])]
    IN  PushCleanup(s1, c, Remover(k))

\* onAbort called with a cleanup that calls abort() of the same scope.
OnAbortReabort(s, c) ==
    LET k == Len(s.registered) + 1
        s1 == [s EXCEPT !.registered =
                  Append(@, [scope |-> c, live |-> ~s.aborted[c], byCallback |-> FALSE])]
    IN  PushCleanup(s1, c, Reabort(k))

\* onAbort called with a cleanup that throws.
OnAbortThrower(s, c) ==
    LET k == Len(s.registered) + 1
        s1 == [s EXCEPT !.registered =
                  Append(@, [scope |-> c, live |-> ~s.aborted[c], byCallback |-> FALSE])]
    IN  PushCleanup(s1, c, Thrower(k))

\* new EffectController(): fresh lists, _aborted = false, and the constructor's
\* onAbort of the debug-log cleanup.
NewController(s, p) ==
    LET c == Len(s.ctrlInfo) + 1
        s1 == [s EXCEPT !.ctrlInfo = Append(@, [parent |-> p, wrapper |-> 0, cb |-> "none"]),
                        !.cleanupCallbacks = Append(@, <<>>),
                        !.childControllers = Append(@, <<>>),
                        !.aborted = Append(@, FALSE)]
    IN  PushCleanup(s1, c, Debug(c))

\* CreateChildController without the cleanup that detaches the child from its parent.
CreateChildControllerNoDetach(s, p) ==
    LET s1 == NewController(s, p)
        c == Len(s1.ctrlInfo)
    IN  [s1 EXCEPT !.childControllers[p] = Append(@, c)]

\* createChildController: construct, push on childControllers, register on the
\* child the cleanup that splices it out of the parent's childControllers.
CreateChildController(s, p) ==
    LET s1 == NewController(s, p)
        c == Len(s1.ctrlInfo)
        s2 == [s1 EXCEPT !.childControllers[p] = Append(@, c)]
    IN  PushCleanup(s2, c, Detach(c))

\* CreateController without the _aborted guard.
CreateControllerNoGuard(s, p) == CreateChildController(s, p)

\* createController: throws on an aborted controller.
CreateController(s, p) ==
    IF s.aborted[p]
    THEN Throw(s, ErrAbortedCreate)
    ELSE CreateChildController(s, p)

\* createUserStore(): name '', _loading false; fetch not called, not finished.
NoStore == [fetch |-> FALSE, loading |-> FALSE, name |-> "", done |-> FALSE]

\* The registered action cleanup called without the produced value.
CleanupArgNone(s, a) == Undefined

\* The argument the registered action cleanup passes on: cleanup(ret) in act,
\* cleanup(value) in actAsync of effect.ts, cleanup() in actAsync of the package
\* and in action of effect-util.ts.
CleanupArg(s, a) ==
    IF \/ s.actions[a].kind = "actAsync" /\ s.actions[a].impl = "package"
       \/ s.actions[a].kind = "action"
    THEN Undefined
    ELSE s.actions[a].value

\* The cleanup of action a called with arg; the cleanup the user store's fetch
\* passes is () => { set({ _loading: false }) }.
CleanupBody(s, a, arg) ==
    [s EXCEPT !.actions[a].ran = Append(@, arg),
              !.store[a].loading = IF s.store[a].fetch THEN FALSE ELSE @]

RECURSIVE Abort(_, _)
RECURSIVE AbortChildren(_, _, _)
RECURSIVE RunCleanups(_, _, _)
RECURSIVE WrappedCleanup(_, _, _)
RECURSIVE Cleanup(_, _)

\* The body of a registered cleanup.
Cleanup(s, cb) ==
    CASE cb.kind = "debug" -> s
      [] cb.kind = "detach" ->
            LET p == s.ctrlInfo[cb.id].parent
                idx == IndexOf(s.childControllers[p], cb.id)
            IN  IF idx >= 1
                THEN [s EXCEPT !.childControllers[p] = Splice(@, idx)]
                ELSE s
      [] cb.kind \in {"switch", "rawSwitch"} ->
            IF s.currCtrl[cb.id] # 0
            THEN LET s1 == Abort(s, s.currCtrl[cb.id])
                 IN  IF s1.err # NoErr THEN s1
                     ELSE [s1 EXCEPT !.currCtrl[cb.id] = 0]
            ELSE s
      [] cb.kind = "user" -> [s EXCEPT !.trace = Append(@, cb.id)]
      [] cb.kind = "adder" ->
            OnAbortUser([s EXCEPT !.trace = Append(@, cb.id)],
                        s.registered[cb.id].scope, TRUE)
      [] cb.kind = "probe" ->
            LET c == s.registered[cb.id].scope
                swept == \E i \in 1..Len(s.trace) : s.registered[s.trace[i]].scope = c
            IN  [s EXCEPT !.trace = Append(@, cb.id),
                          !.observed = @ \cup {[cleanup |-> cb.id, swept |-> swept,
                                                aborted |-> s.aborted[c]]}]
      [] cb.kind = "remover" ->
            LET c == s.registered[cb.id].scope
                hit == IndexOf(s.cleanupCallbacks[c], User(cb.id - 1)) >= 1
                s1 == [s EXCEPT !.trace = Append(@, cb.id),
                                !.removed = IF hit THEN @ \cup {cb.id - 1} ELSE @]
            IN  RemoveCleanup(s1, c, User(cb.id - 1))
      [] cb.kind = "reabort" ->
            LET s1 == [s EXCEPT !.trace = Append(@, cb.id)]
            IN  IF s.depth >= MaxDepth THEN Throw(s1, ErrStack)
                ELSE [Abort([s1 EXCEPT !.depth = @ + 1], s.registered[cb.id].scope)
                         EXCEPT !.depth = s.depth]
      [] cb.kind = "thrower" ->
            Throw([s EXCEPT !.trace = Append(@, cb.id)], ErrCleanup)
      [] cb.kind = "action" -> CleanupBody(s, cb.id, CleanupArg(s, cb.id))
      [] cb.kind = "spawn" ->
            CreateController([s EXCEPT !.trace = Append(@, cb.id)],
                             s.registered[cb.id].scope)

\* wrappedCleanup of onAbort: cleanup(); removeCleanup().
WrappedCleanup(s, c, cb) ==
    LET s1 == Cleanup(s, cb)
    IN  IF s1.err # NoErr THEN s1 ELSE RemoveCleanup(s1, c, cb)

\* childControllers.slice().forEach(child => child.abort()): oldest child first.
RECURSIVE AbortSnapshot(_, _, _)
AbortSnapshot(s, snap, j) ==
    IF j > Len(snap) THEN s
    ELSE LET s1 == Abort(s, snap[j])
         IN  IF s1.err # NoErr THEN s1 ELSE AbortSnapshot(s1, snap, j + 1)

\* The child loop running in creation order.
AbortChildrenOldestFirst(s, c, i) == AbortSnapshot(s, s.childControllers[c], 1)

\* for (i = childControllers.length - 1; i >= 0; i--) childControllers[i].abort()
\* (i is 1-based here; an index past the end reads undefined).
AbortChildren(s, c, i) ==
    IF i < 1 THEN s
    ELSE IF i > Len(s.childControllers[c]) THEN Throw(s, ErrType)
    ELSE LET s1 == Abort(s, s.childControllers[c][i])
         IN  IF s1.err # NoErr THEN s1 ELSE AbortChildren(s1, c, i - 1)

\* cb() taking the entry off the list also when its cleanup threw.
CallEntryFinally(s, c, cb) ==
    LET s1 == Cleanup(s, cb)
    IN  [RemoveCleanup(s1, c, cb) EXCEPT !.err = s1.err]

\* cb() for an entry of cleanupCallbacks. An entry pushed by onAbort is a
\* wrappedCleanup: cleanup(), then removeCleanup(). The function that
\* createAbortSwitchWrapper of the closure controllers pushes is called as it
\* is: nothing takes it off the list.
CallEntry(s, c, cb) ==
    LET s1 == Cleanup(s, cb)
    IN  IF s1.err # NoErr \/ cb.kind = "rawSwitch" THEN s1 ELSE RemoveCleanup(s1, c, cb)

\* for (i = cleanupCallbacks.length - 1; i >= 0; i--) { cb = cleanupCallbacks[i]; cb() }
RunCleanups(s, c, i) ==
    IF i < 1 THEN s
    ELSE IF i > Len(s.cleanupCallbacks[c]) THEN Throw(s, ErrType)
    ELSE LET s1 == CallEntry(s, c, s.cleanupCallbacks[c][i])
         IN  IF s1.err # NoErr THEN s1 ELSE RunCleanups(s1, c, i - 1)

\* Abort that never sets _aborted.
AbortNoFlag(s, c) ==
    IF s.aborted[c] THEN s
    ELSE LET s1 == AbortChildren(s, c, Len(s.childControllers[c]))
         IN  IF s1.err # NoErr THEN s1
             ELSE LET s2 == [s1 EXCEPT !.childControllers[c] = <<>>]
                      s3 == RunCleanups(s2, c, Len(s2.cleanupCallbacks[c]))
                  IN  IF s3.err # NoErr THEN s3
                      ELSE IF Len(s3.cleanupCallbacks[c]) > 0 THEN Throw(s3, ErrNotEmpty)
                      ELSE s3

\* Abort without the early return on _aborted.
AbortNoGuard(s, c) ==
    LET s1 == AbortChildren(s, c, Len(s.childControllers[c]))
    IN  IF s1.err # NoErr THEN s1
        ELSE LET s2 == [s1 EXCEPT !.childControllers[c] = <<>>]
                 s3 == RunCleanups(s2, c, Len(s2.cleanupCallbacks[c]))
             IN  IF s3.err # NoErr THEN s3
                 ELSE IF Len(s3.cleanupCallbacks[c]) > 0 THEN Throw(s3, ErrNotEmpty)
                 ELSE [s3 EXCEPT !.aborted[c] = TRUE]

\* cleanupCallbacks.slice().forEach(cb => cb()): the snapshot run front to back.
RECURSIVE RunSnapshot(_, _, _, _)
RunSnapshot(s, c, snap, j) ==
    IF j > Len(snap) THEN s
    ELSE LET s1 == WrappedCleanup(s, c, snap[j])
         IN  IF s1.err # NoErr THEN s1 ELSE RunSnapshot(s1, c, snap, j + 1)

\* Abort running the scope's cleanups in registration order.
AbortFifo(s, c) ==
    IF s.aborted[c] THEN s
    ELSE LET s1 == AbortChildren(s, c, Len(s.childControllers[c]))
         IN  IF s1.err # NoErr THEN s1
             ELSE LET s2 == [s1 EXCEPT !.childControllers[c] = <<>>]
                      s3 == RunSnapshot(s2, c, s2.cleanupCallbacks[c], 1)
                  IN  IF s3.err # NoErr THEN s3
                      ELSE IF Len(s3.cleanupCallbacks[c]) > 0 THEN Throw(s3, ErrNotEmpty)
                      ELSE [s3 EXCEPT !.aborted[c] = TRUE]

\* Abort running the scope's own cleanups before aborting the children.
AbortParentFirst(s, c) ==
    IF s.aborted[c] THEN s
    ELSE LET s1 == RunCleanups(s, c, Len(s.cleanupCallbacks[c]))
         IN  IF s1.err # NoErr THEN s1
             ELSE LET s2 == AbortChildren(s1, c, Len(s1.childControllers[c]))
                  IN  IF s2.err # NoErr THEN s2
                      ELSE LET s3 == [s2 EXCEPT !.childControllers[c] = <<>>]
                           IN  IF Len(s3.cleanupCallbacks[c]) > 0 THEN Throw(s3, ErrNotEmpty)
                               ELSE [s3 EXCEPT !.aborted[c] = TRUE]

\* Abort that marks the scope aborted before checking the cleanup list.
AbortFlagBeforeCheck(s, c) ==
    IF s.aborted[c] THEN s
    ELSE LET s1 == AbortChildren(s, c, Len(s.childControllers[c]))
         IN  IF s1.err # NoErr THEN s1
             ELSE LET s2 == [s1 EXCEPT !.childControllers[c] = <<>>]
                      s3 == RunCleanups(s2, c, Len(s2.cleanupCallbacks[c]))
                      s4 == [s3 EXCEPT !.aborted[c] = TRUE]
                  IN  IF s3.err # NoErr THEN s3
                      ELSE IF Len(s3.cleanupCallbacks[c]) > 0 THEN Throw(s4, ErrNotEmpty)
                      ELSE s4

\* Abort without the check that the cleanup list ended empty.
AbortNoCheck(s, c) ==
    IF s.aborted[c] THEN s
    ELSE LET s1 == AbortChildren(s, c, Len(s.childControllers[c]))
         IN  IF s1.err # NoErr THEN s1
             ELSE LET s2 == [s1 EXCEPT !.childControllers[c] = <<>>]
                      s3 == RunCleanups(s2, c, Len(s2.cleanupCallbacks[c]))
                  IN  IF s3.err # NoErr THEN s3
                      ELSE [s3 EXCEPT !.aborted[c] = TRUE]

\* EffectController.abort
Abort(s, c) ==
    IF s.aborted[c] THEN s
    ELSE LET s1 == AbortChildren(s, c, Len(s.childControllers[c]))
         IN  IF s1.err # NoErr THEN s1
             ELSE LET s2 == [s1 EXCEPT !.childControllers[c] = <<>>]
                      s3 == RunCleanups(s2, c, Len(s2.cleanupCallbacks[c]))
                  IN  IF s3.err # NoErr THEN s3
                      ELSE IF Len(s3.cleanupCallbacks[c]) > 0 THEN Throw(s3, ErrNotEmpty)
                      ELSE [s3 EXCEPT !.aborted[c] = TRUE]

\* createAbortedController(label) of abort.ts: fresh lists, aborted = false, no
\* cleanup registered by the constructor.
NewClosureController(s, p) ==
    LET c == Len(s.ctrlInfo) + 1
    IN  [s EXCEPT !.ctrlInfo = Append(@, [parent |-> p, wrapper |-> 0, cb |-> "none"]),
                  !.cleanupCallbacks = Append(@, <<>>),
                  !.childControllers = Append(@, <<>>),
                  !.aborted = Append(@, FALSE)]

\* createChildController of the closure controllers; their createController
\* calls it without looking at aborted.
ClosureChildController(s, p) ==
    LET s1 == NewClosureController(s, p)
        c == Len(s1.ctrlInfo)
        s2 == [s1 EXCEPT !.childControllers[p] = Append(@, c)]
    IN  PushCleanup(s2, c, Detach(c))

\* Array.prototype.reverse
Reverse(seq) == [i \in 1..Len(seq) |-> seq[Len(seq) + 1 - i]]

\* Array.prototype.forEach(cb => { cb() }): the length is read once, indices
\* count up (k is 1-based), an index the array no longer has is skipped.
RECURSIVE ForEachCleanup(_, _, _, _)
ForEachCleanup(s, c, k, len) ==
    IF k > len THEN s
    ELSE IF k > Len(s.cleanupCallbacks[c]) THEN ForEachCleanup(s, c, k + 1, len)
    ELSE LET s1 == CallEntry(s, c, s.cleanupCallbacks[c][k])
         IN  IF s1.err # NoErr THEN s1 ELSE ForEachCleanup(s1, c, k + 1, len)

\* abort of abort.ts: guard, children newest first, childControllers.length = 0,
\* cleanupCallbacks.reverse().forEach(...), cleanupCallbacks.length = 0, aborted = true.
RECURSIVE AbortReverse(_, _), AbortReverseChildren(_, _, _)
AbortReverseChildren(s, c, i) ==
    IF i < 1 THEN s
    ELSE IF i > Len(s.childControllers[c]) THEN Throw(s, ErrType)
    ELSE LET s1 == AbortReverse(s, s.childControllers[c][i])
         IN  IF s1.err # NoErr THEN s1 ELSE AbortReverseChildren(s1, c, i - 1)

AbortReverse(s, c) ==
    IF s.aborted[c] THEN s
    ELSE LET s1 == AbortReverseChildren(s, c, Len(s.childControllers[c]))
         IN  IF s1.err # NoErr THEN s1
             ELSE LET s2 == [s1 EXCEPT !.childControllers[c] = <<>>,
                                       !.cleanupCallbacks[c] = Reverse(@)]
                      s3 == ForEachCleanup(s2, c, 1, Len(s2.cleanupCallbacks[c]))
                  IN  IF s3.err # NoErr THEN s3
                      ELSE [s3 EXCEPT !.cleanupCallbacks[c] = <<>>, !.aborted[c] = TRUE]

\* The function onAbort returns, were it the cleanup it was given.
ReturnedCleanupBare(s, c, cb) == Cleanup(s, cb)

\* The function onAbort of abort.ts returns: wrappedCleanup itself.
ReturnedCleanup(s, c, cb) == WrappedCleanup(s, c, cb)

\* createAbortSwitchWrapper: a fresh currCtrl cell and one cleanup on effectContext.
CreateAbortSwitchWrapper(s, c) ==
    LET w == Len(s.wrapperScope) + 1
        s1 == [s EXCEPT !.wrapperScope = Append(@, c), !.currCtrl[w] = 0]
    IN  PushCleanup(s1, c, Switch(w))

\* The callback wrapped by the switch wrapper, run on the fresh child.
Callback(s, f, c) ==
    IF f = "home" THEN OnAbortUser(s, c, TRUE) ELSE s

\* WrappedFn that leaves the previous child alone.
WrappedFnNoAbort(s, w, f) ==
    LET s2 == CreateController(s, s.wrapperScope[w])
    IN  IF s2.err # NoErr THEN s2
        ELSE LET c == Len(s2.ctrlInfo)
                 s3 == [s2 EXCEPT !.currCtrl[w] = c,
                                  !.ctrlInfo[c].wrapper = w,
                                  !.ctrlInfo[c].cb = f]
             IN  Callback(s3, f, c)

\* WrappedFn that stores the new child only while the cell is null.
WrappedFnStaleCell(s, w, f) ==
    LET s1 == IF s.currCtrl[w] # 0 THEN Abort(s, s.currCtrl[w]) ELSE s
    IN  IF s1.err # NoErr THEN s1
        ELSE LET s2 == CreateController(s1, s1.wrapperScope[w])
             IN  IF s2.err # NoErr THEN s2
                 ELSE LET c == Len(s2.ctrlInfo)
                          s3 == [s2 EXCEPT !.currCtrl[w] = IF @ = 0 THEN c ELSE @,
                                           !.ctrlInfo[c].wrapper = w,
                                           !.ctrlInfo[c].cb = f]
                      IN  Callback(s3, f, c)

\* WrappedFn with one cell per wrapped function: the previous child is aborted
\* only when the same callback made it.
WrappedFnOwnCell(s, w, f) ==
    LET prev == s.currCtrl[w]
        s1 == IF prev # 0 /\ s.ctrlInfo[prev].cb = f THEN Abort(s, prev) ELSE s
    IN  IF s1.err # NoErr THEN s1
        ELSE LET s2 == CreateController(s1, s1.wrapperScope[w])
             IN  IF s2.err # NoErr THEN s2
                 ELSE LET c == Len(s2.ctrlInfo)
                          s3 == [s2 EXCEPT !.currCtrl[w] = c,
                                           !.ctrlInfo[c].wrapper = w,
                                           !.ctrlInfo[c].cb = f]
                      IN  Callback(s3, f, c)

\* WrappedFn making the child with createChildController, past the _aborted guard.
WrappedFnUnguarded(s, w, f) ==
    LET s1 == IF s.currCtrl[w] # 0 THEN Abort(s, s.currCtrl[w]) ELSE s
    IN  IF s1.err # NoErr THEN s1
        ELSE LET s2 == CreateChildController(s1, s1.wrapperScope[w])
                 c == Len(s2.ctrlInfo)
                 s3 == [s2 EXCEPT !.currCtrl[w] = c,
                                  !.ctrlInfo[c].wrapper = w,
                                  !.ctrlInfo[c].cb = f]
             IN  Callback(s3, f, c)

\* The function a wrapper returns for callback f.
WrappedFn(s, w, f) ==
    LET s1 == IF s.currCtrl[w] # 0 THEN Abort(s, s.currCtrl[w]) ELSE s
    IN  IF s1.err # NoErr THEN s1
        ELSE LET s2 == CreateController(s1, s1.wrapperScope[w])
             IN  IF s2.err # NoErr THEN s2
                 ELSE LET c == Len(s2.ctrlInfo)
                          s3 == [s2 EXCEPT !.currCtrl[w] = c,
                                           !.ctrlInfo[c].wrapper = w,
                                           !.ctrlInfo[c].cb = f]
                      IN  Callback(s3, f, c)

\* createAbortSwitchWrapper of effect-util.ts: a fresh currCtrl cell and a
\* function pushed on cleanupCallbacks directly.
UtilCreateAbortSwitchWrapper(s, c) ==
    LET w == Len(s.wrapperScope) + 1
        s1 == [s EXCEPT !.wrapperScope = Append(@, c), !.currCtrl[w] = 0]
    IN  PushCleanup(s1, c, RawSwitch(w))

\* The function a wrapper of effect-util.ts returns for callback f: the child is
\* made by createChildController, whatever aborted is.
UtilWrappedFn(s, w, f) ==
    LET s1 == IF s.currCtrl[w] # 0 THEN Abort(s, s.currCtrl[w]) ELSE s
    IN  IF s1.err # NoErr THEN s1
        ELSE LET s2 == ClosureChildController(s1, s1.wrapperScope[w])
                 c == Len(s2.ctrlInfo)
                 s3 == [s2 EXCEPT !.currCtrl[w] = c,
                                  !.ctrlInfo[c].wrapper = w,
                                  !.ctrlInfo[c].cb = f]
             IN  Callback(s3, f, c)

\* context.aborted() read as always false.
ContextNeverAborted(s, c) == FALSE

\* this.context.aborted(): the _aborted flag of the transaction's scope.
ContextAborted(s, c) == s.aborted[c]

NoResult == [aborted |-> FALSE, value |-> Undefined, handle |-> "none"]
\* { aborted: true, removeCleanup: () => void 0 }
AbortedResult == [aborted |-> TRUE, value |-> Undefined, handle |-> "noop"]
\* removeCleanup of a result: the function onAbort returned, or () => void 0.
Handle(hasCleanup) == IF hasCleanup THEN "remove" ELSE "noop"

\* A call of act/actAsync on scope c: the record that follows it.
NewAction(s, c, kind, impl, hasCleanup) ==
    [s EXCEPT !.actions =
        Append(@, [scope |-> c, kind |-> kind, impl |-> impl, hasCleanup |-> hasCleanup,
                   live |-> ~s.aborted[c], status |-> "pending", outcome |-> Undefined,
                   value |-> Undefined, produced |-> 0, ran |-> <<>>,
                   result |-> NoResult, removed |-> FALSE])]

\* act(callback, cleanup): the same code in both classes.
Act(s, c, hasCleanup, out) ==
    LET a == Len(s.actions) + 1
        s1 == NewAction(s, c, "act", "effect", hasCleanup)
    IN  IF ContextAborted(s1, c)
        THEN [s1 EXCEPT !.actions[a].status = "returned",
                        !.actions[a].result = AbortedResult]
        ELSE LET s2 == [s1 EXCEPT !.actions[a].produced = @ + 1,
                                  !.actions[a].outcome = out]
             IN  IF out = Fail
                 THEN Throw([s2 EXCEPT !.actions[a].status = "failed"], ErrProduce)
                 ELSE LET s3 == [s2 EXCEPT !.actions[a].value = out]
                          s4 == IF hasCleanup THEN PushCleanup(s3, c, ActionCleanup(a))
                                ELSE s3
                      IN  [s4 EXCEPT !.actions[a].status = "returned",
                                     !.actions[a].result =
                                         [aborted |-> FALSE, value |-> out,
                                          handle |-> Handle(hasCleanup)]]

\* actAsync that registers nothing at the call.
ActAsyncNoRegister(s, c, impl, hasCleanup) ==
    LET a == Len(s.actions) + 1
        s1 == NewAction(s, c, "actAsync", impl, hasCleanup)
    IN  IF ContextAborted(s1, c)
        THEN [s1 EXCEPT !.actions[a].status = "returned",
                        !.actions[a].result = AbortedResult]
        ELSE [s1 EXCEPT !.actions[a].produced = @ + 1]

\* actAsync(callback, cleanup) up to the promise it returns: effect.ts only calls
\* callback(); the package also registers the cleanup at once.
ActAsync(s, c, impl, hasCleanup) ==
    LET a == Len(s.actions) + 1
        s1 == NewAction(s, c, "actAsync", impl, hasCleanup)
    IN  IF ContextAborted(s1, c)
        THEN [s1 EXCEPT !.actions[a].status = "returned",
                        !.actions[a].result = AbortedResult]
        ELSE LET s2 == [s1 EXCEPT !.actions[a].produced = @ + 1]
             IN  IF impl = "package" /\ hasCleanup
                 THEN PushCleanup(s2, c, ActionCleanup(a))
                 ELSE s2

\* The continuation of effect.ts calling cleanup() without the resolved value.
EffectThenNoValue(s, a, out) ==
    LET c == s.actions[a].scope
        hasCleanup == s.actions[a].hasCleanup
    IN  IF ContextAborted(s, c)
        THEN LET s1 == IF hasCleanup
                       THEN [s EXCEPT !.actions[a].ran = Append(@, Undefined)]
                       ELSE s
             IN  [s1 EXCEPT !.actions[a].result = AbortedResult]
        ELSE LET s1 == [s EXCEPT !.actions[a].value = out]
                 s2 == IF hasCleanup THEN PushCleanup(s1, c, ActionCleanup(a)) ELSE s1
             IN  [s2 EXCEPT !.actions[a].result =
                     [aborted |-> FALSE, value |-> out, handle |-> Handle(hasCleanup)]]

\* The continuation of effect.ts with the cleanup dropped when the scope is aborted.
EffectThenLost(s, a, out) ==
    LET c == s.actions[a].scope
        hasCleanup == s.actions[a].hasCleanup
    IN  IF ContextAborted(s, c)
        THEN [s EXCEPT !.actions[a].result = AbortedResult]
        ELSE LET s1 == [s EXCEPT !.actions[a].value = out]
                 s2 == IF hasCleanup THEN PushCleanup(s1, c, ActionCleanup(a)) ELSE s1
             IN  [s2 EXCEPT !.actions[a].result =
                     [aborted |-> FALSE, value |-> out, handle |-> Handle(hasCleanup)]]

\* The .then continuation of effect.ts for the resolved value out.
EffectThen(s, a, out) ==
    LET c == s.actions[a].scope
        hasCleanup == s.actions[a].hasCleanup
    IN  IF ContextAborted(s, c)
        THEN LET s1 == IF hasCleanup THEN CleanupBody(s, a, out) ELSE s
             IN  [s1 EXCEPT !.actions[a].result = AbortedResult]
        ELSE LET s1 == [s EXCEPT !.actions[a].value = out]
                 s2 == IF hasCleanup THEN PushCleanup(s1, c, ActionCleanup(a)) ELSE s1
             IN  [s2 EXCEPT !.actions[a].result =
                     [aborted |-> FALSE, value |-> out, handle |-> Handle(hasCleanup)]]

\* The continuation of the package reporting the scope as it was at the call.
PackageThenCallTime(s, a, out) ==
    [s EXCEPT !.actions[a].value = out,
              !.actions[a].result =
                  [aborted |-> ~s.actions[a].live, value |-> out,
                   handle |-> Handle(s.actions[a].hasCleanup)]]

\* The .then continuation of the package for the resolved value out.
PackageThen(s, a, out) ==
    [s EXCEPT !.actions[a].value = out,
              !.actions[a].result =
                  [aborted |-> ContextAborted(s, s.actions[a].scope), value |-> out,
                   handle |-> Handle(s.actions[a].hasCleanup)]]

\* action(action, cleanup) of effect-util.ts up to its await: an aborted
\* controller answers at once, otherwise action() is called. The calls modelled
\* pass a cleanup.
UtilAction(s, c) ==
    LET a == Len(s.actions) + 1
        s1 == NewAction(s, c, "action", Util, TRUE)
    IN  IF s1.aborted[c]
        THEN [s1 EXCEPT !.actions[a].status = "returned",
                        !.actions[a].result = AbortedResult]
        ELSE [s1 EXCEPT !.actions[a].produced = @ + 1]

\* The rest of action after the await: onAbort(cleanup), then the result with
\* aborted as it is now.
UtilThen(s, a, out) ==
    LET c == s.actions[a].scope
        s1 == PushCleanup([s EXCEPT !.actions[a].value = out], c, ActionCleanup(a))
    IN  [s1 EXCEPT !.actions[a].result =
            [aborted |-> s.aborted[c], value |-> out, handle |-> "remove"]]

\* race(promise): an async function, suspended at `await promise` before it
\* reads anything of the controller.
Race(s, c) == NewAction(s, c, "race", Util, FALSE)

\* The rest of race reporting the controller as it was at the call.
RaceThenCallTime(s, a, out) ==
    [s EXCEPT !.actions[a].value = out,
              !.actions[a].result =
                  [aborted |-> ~s.actions[a].live, value |-> out, handle |-> "none"]]

\* return { value: await promise, aborted }: aborted is read after the await.
RaceThen(s, a, out) ==
    [s EXCEPT !.actions[a].value = out,
              !.actions[a].result =
                  [aborted |-> s.aborted[s.actions[a].scope], value |-> out,
                   handle |-> "none"]]

\* The promise never settling for the caller once the scope is aborted.
SettleStopped(s, a, out) ==
    IF s.aborted[s.actions[a].scope] THEN s
    ELSE LET s1 == [s EXCEPT !.actions[a].outcome = out]
         IN  IF out = Fail
             THEN Throw([s1 EXCEPT !.actions[a].status = "failed"], ErrProduce)
             ELSE LET s2 == CASE s.actions[a].kind = "race" -> RaceThen(s1, a, out)
                              [] s.actions[a].impl = "effect" -> EffectThen(s1, a, out)
                              [] OTHER -> PackageThen(s1, a, out)
                  IN  [s2 EXCEPT !.actions[a].status = "returned"]

\* The promise of callback() (or the one handed to race) settles: a rejection
\* skips the continuation and rejects the promise the call returned; a value
\* runs the continuation.
Settle(s, a, out) ==
    LET s1 == [s EXCEPT !.actions[a].outcome = out]
    IN  IF out = Fail
        THEN Throw([s1 EXCEPT !.actions[a].status = "failed"], ErrProduce)
        ELSE LET s2 == CASE s.actions[a].kind = "race" -> RaceThen(s1, a, out)
                         [] s.actions[a].kind = "action" -> UtilThen(s1, a, out)
                         [] s.actions[a].impl = "effect" -> EffectThen(s1, a, out)
                         [] OTHER -> PackageThen(s1, a, out)
             IN  [s2 EXCEPT !.actions[a].status = "returned"]

\* result.removeCleanup() of action a.
RemoveCleanupOfResult(s, a) ==
    LET c == s.actions[a].scope
    IN  IF s.actions[a].result.handle = "remove"
        THEN LET hit == IndexOf(s.cleanupCallbacks[c], ActionCleanup(a)) >= 1
                 s1 == RemoveCleanup(s, c, ActionCleanup(a))
             IN  [s1 EXCEPT !.actions[a].removed = @ \/ hit]
        ELSE s

\* fetch(ctx) of the user store up to its await: new EffectTransaction(ctx),
\* actAsync(produce, cleanup); produce, when called, sets _loading before the
\* request is sent.
Fetch(s, c, impl) ==
    LET a == Len(s.actions) + 1
        s1 == ActAsync(s, c, impl, TRUE)
    IN  [s1 EXCEPT !.store[a].fetch = TRUE,
                   !.store[a].loading = s1.actions[a].produced > 0]

\* The rest of fetch writing the store without looking at aborted.
FetchThenUnchecked(s, a) ==
    LET s1 == RemoveCleanupOfResult(s, a)
    IN  [s1 EXCEPT !.store[a].loading = FALSE,
                   !.store[a].name = s.actions[a].result.value,
                   !.store[a].done = TRUE]

\* The rest of fetch, once the promise of actAsync has resolved:
\* if (aborted) return; removeCleanup(); set({ _loading: false, name: value.name }).
FetchThen(s, a) ==
    IF s.actions[a].result.aborted
    THEN [s EXCEPT !.store[a].done = TRUE]
    ELSE LET s1 == RemoveCleanupOfResult(s, a)
         IN  [s1 EXCEPT !.store[a].loading = FALSE,
                        !.store[a].name = s.actions[a].result.value,
                        !.store[a].done = TRUE]

Ctrls == 1..Len(ctrlInfo)
Actions == 1..Len(actions)
\* Controllers made by createController calls of the driver (and the root), and
\* those made by calls of wrapped functions.
Direct == {c \in Ctrls : ctrlInfo[c].wrapper = 0}
Switched == {c \in Ctrls : ctrlInfo[c].wrapper # 0}
Cleanups == 1..Len(registered)
Wrappers == 1..Len(wrapperScope)

\* The heap after a top-level call; a call that threw leaves what it had done.
Commit(s, op, arg) ==
    /\ ctrlInfo' = s.ctrlInfo
    /\ cleanupCallbacks' = s.cleanupCallbacks
    /\ childControllers' = s.childControllers
    /\ aborted' = s.aborted
    /\ registered' = s.registered
    /\ removed' = s.removed
    /\ wrapperScope' = s.wrapperScope
    /\ currCtrl' = s.currCtrl
    /\ trace' = s.trace
    /\ observed' = s.observed
    /\ actions' = s.actions
    /\ store' = s.store
    /\ lastOp' = [op |-> op, arg |-> arg, err |-> s.err]

\* createAbortedController(): the root controller.
Init ==
    LET s == NewController(
                [ctrlInfo |-> <<>>, cleanupCallbacks |-> <<>>, childControllers |-> <<>>,
                 aborted |-> <<>>, registered |-> <<>>, removed |-> {},
                 wrapperScope |-> <<>>, currCtrl |-> [w \in 1..MaxWrap |-> 0],
                 trace |-> <<>>, observed |-> {}, actions |-> <<>>, err |-> NoErr], 0)
    IN  /\ ctrlInfo = s.ctrlInfo
        /\ cleanupCallbacks = s.cleanupCallbacks
        /\ childControllers = s.childControllers
        /\ aborted = s.aborted
        /\ registered = s.registered
        /\ removed = s.removed
        /\ wrapperScope = s.wrapperScope
        /\ currCtrl = s.currCtrl
        /\ trace = s.trace
        /\ observed = s.observed
        /\ actions = s.actions
        /\ store = [a \in 1..MaxAction |-> NoStore]
        /\ lastOp = [op |-> "create", arg |-> 1, err |-> NoErr]

\* createAbortedController(label): the root of a tree of closure controllers.
InitClosure ==
    LET s == NewClosureController(
                [ctrlInfo |-> <<>>, cleanupCallbacks |-> <<>>, childControllers |-> <<>>,
                 aborted |-> <<>>, registered |-> <<>>, removed |-> {},
                 wrapperScope |-> <<>>, currCtrl |-> [w \in 1..MaxWrap |-> 0],
                 trace |-> <<>>, observed |-> {}, actions |-> <<>>, err |-> NoErr], 0)
    IN  /\ ctrlInfo = s.ctrlInfo
        /\ cleanupCallbacks = s.cleanupCallbacks
        /\ childControllers = s.childControllers
        /\ aborted = s.aborted
        /\ registered = s.registered
        /\ removed = s.removed
        /\ wrapperScope = s.wrapperScope
        /\ currCtrl = s.currCtrl
        /\ trace = s.trace
        /\ observed = s.observed
        /\ actions = s.actions
        /\ store = [a \in 1..MaxAction |-> NoStore]
        /\ lastOp = [op |-> "create", arg |-> 1, err |-> NoErr]

\* ctrl.createController(label) of a closure controller.
DoClosureCreateController(c) ==
    /\ Cardinality(Direct) < MaxCtrl
    /\ Commit(ClosureChildController(Heap, c), "createController", c)

\* ctrl.abort() of abort.ts
DoAbortReverse(c) ==
    Commit(AbortReverse(Heap, c), "abort", c)

\* The effect cleanup of a mounted component calls, once, the function onAbort
\* returned for user cleanup k.
DoCleanupNow(k) ==
    /\ ~aborted[registered[k].scope]
    /\ k \notin removed
    /\ LET c == registered[k].scope
           s == ReturnedCleanup(Heap, c, User(k))
       IN  Commit([s EXCEPT !.removed = @ \cup {k}], "cleanupNow", k)

\* ctrl.onAbort(fn) by the driver, on any controller it holds.
DoOnAbort(c) ==
    /\ Cardinality({k \in Cleanups : ~registered[k].byCallback}) < MaxCleanup
    /\ Commit(OnAbortUser(Heap, c, FALSE), "onAbort", c)

\* The remove function onAbort returned for user cleanup k.
DoRemove(k) ==
    /\ ~registered[k].byCallback
    /\ LET c == registered[k].scope
           s == RemoveCleanup(Heap, c, User(k))
           hit == IndexOf(cleanupCallbacks[c], User(k)) >= 1
       IN  Commit([s EXCEPT !.removed = IF hit THEN @ \cup {k} ELSE @], "remove", k)

\* ctrl.createController()
DoCreateController(c) ==
    /\ Cardinality(Direct) < MaxCtrl \/ aborted[c]
    /\ Commit(CreateController(Heap, c), "createController", c)

\* ctrl.abort()
DoAbort(c) ==
    Commit(Abort(Heap, c), "abort", c)

\* createAbortSwitchWrapper(ctrl)
DoCreateWrapper(c) ==
    /\ Len(wrapperScope) < MaxWrap
    /\ Commit(CreateAbortSwitchWrapper(Heap, c), "createWrapper", c)

\* wrapper(f)(): the wrapped function of callback f.
DoInvoke(w, f) ==
    /\ Cardinality(Switched) < MaxInvoke \/ aborted[wrapperScope[w]]
    /\ Commit(WrappedFn(Heap, w, f), "invoke", w)

\* ctrl.onAbort(() => { ctrl.createController() })
DoOnAbortSpawn(c) ==
    /\ Len(registered) < MaxCleanup
    /\ Commit(OnAbortSpawn(Heap, c), "onAbort", c)

\* ctrl.onAbort(() => { ctrl.onAbort(fn) })
DoOnAbortAdder(c) ==
    /\ Len(registered) < MaxCleanup
    /\ Commit(OnAbortAdder(Heap, c), "onAbort", c)

\* ctrl.onAbort(() => { seen = ctrl.aborted() })
DoOnAbortProbe(c) ==
    /\ Len(registered) < MaxCleanup
    /\ Commit(OnAbortProbe(Heap, c), "onAbort", c)

\* const remove = ctrl.onAbort(f); ctrl.onAbort(() => { remove() })
DoOnAbortRemover(c) ==
    /\ Len(registered) < MaxCleanup + 1
    /\ Len(registered) >= 1
    /\ IndexOf(cleanupCallbacks[c], User(Len(registered))) >= 1
    /\ Commit(OnAbortRemover(Heap, c), "onAbort", c)

\* ctrl.onAbort(() => { ctrl.abort() })
DoOnAbortReabort(c) ==
    /\ Len(registered) < MaxCleanup
    /\ Commit(OnAbortReabort(Heap, c), "onAbort", c)

\* ctrl.onAbort(() => { throw new Error(...) })
DoOnAbortThrower(c) ==
    /\ Len(registered) < MaxCleanup
    /\ Commit(OnAbortThrower(Heap, c), "onAbort", c)

\* ctrl.abort(), as long as no cleanup has been executed MaxThrow times.
DoAbortBounded(c) ==
    /\ \A k \in 1..Len(registered) :
          Cardinality({i \in 1..Len(trace) : trace[i] = k}) < MaxThrow
    /\ Commit(Abort(Heap, c), "abort", c)

\* The driver of the controller tree: registration, removal, child creation, abort.
Next ==
    \/ \E c \in Ctrls : DoOnAbort(c)
    \/ \E k \in Cleanups : DoRemove(k)
    \/ \E c \in Ctrls : DoCreateController(c)
    \/ \E c \in Ctrls : DoAbort(c)

Spec == Init /\ [][Next]_vars

\* The driver of the switch wrappers: wrappers made on any controller (the root,
\* or a scope another wrapper handed out), the router calling the wrapped loaders,
\* and aborts of any controller in between.
NextSwitch ==
    \/ \E c \in Ctrls : DoCreateWrapper(c)
    \/ \E w \in Wrappers : \E f \in Callbacks : DoInvoke(w, f)
    \/ \E c \in Ctrls : DoAbort(c)

SpecSwitch == Init /\ [][NextSwitch]_vars

\* new EffectTransaction(ctrl).act(() => out, cleanup)
DoAct(c, hasCleanup, out) ==
    /\ Len(actions) < MaxAction
    /\ Commit(Act(Heap, c, hasCleanup, out), "act", Len(actions) + 1)

\* new EffectTransaction(ctrl).actAsync(() => promise, cleanup)
DoActAsync(c, impl, hasCleanup) ==
    /\ Len(actions) < MaxAction
    /\ Commit(ActAsync(Heap, c, impl, hasCleanup), "actAsync", Len(actions) + 1)

\* The promise of a pending actAsync settles with out.
DoSettle(a, out) ==
    /\ a \in Actions
    /\ actions[a].status = "pending"
    /\ Commit(Settle(Heap, a, out), "settle", a)

\* The caller of a returned act/actAsync calls result.removeCleanup().
DoRemoveCleanupOfResult(a) ==
    /\ actions[a].status = "returned"
    /\ Commit(RemoveCleanupOfResult(Heap, a), "removeCleanup", a)

\* The driver of transactions on the root scope.
NextTxn ==
    \/ \E c \in Ctrls : \E h \in BOOLEAN : \E out \in Values \cup {Fail} : DoAct(c, h, out)
    \/ \E c \in Ctrls : \E i \in Impls : \E h \in BOOLEAN : DoActAsync(c, i, h)
    \/ \E a \in Actions : \E out \in Values \cup {Fail} : DoSettle(a, out)
    \/ \E a \in Actions : DoRemoveCleanupOfResult(a)
    \/ \E c \in Ctrls : DoAbort(c)

SpecTxn == Init /\ [][NextTxn]_vars

\* ctrl.race(promise)
DoRace(c) ==
    /\ Len(actions) < MaxAction
    /\ Commit(Race(Heap, c), "race", Len(actions) + 1)

\* The driver of operations in flight: actAsync and race calls, the settling of
\* their promises, abort.
NextRace ==
    \/ \E c \in Ctrls : DoRace(c)
    \/ \E c \in Ctrls : \E i \in Impls : DoActAsync(c, i, TRUE)
    \/ \E a \in Actions : \E out \in Values \cup {Fail} : DoSettle(a, out)
    \/ \E c \in Ctrls : DoAbort(c)

SpecRace == Init /\ [][NextRace]_vars

\* Every promise handed to actAsync or race settles at some time.
SpecRaceFair ==
    /\ SpecRace
    /\ \A a \in 1..MaxAction : WF_vars(\E out \in Values \cup {Fail} : DoSettle(a, out))

\* The driver of the controller tree with cleanups that call back into the scope
\* they are registered on.
NextReentrant ==
    \/ \E c \in Ctrls : DoOnAbort(c)
    \/ \E c \in Ctrls : DoOnAbortSpawn(c)
    \/ \E c \in Ctrls : DoOnAbortProbe(c)
    \/ \E c \in Ctrls : DoCreateController(c)
    \/ \E c \in Ctrls : DoAbort(c)

SpecReentrant == Init /\ [][NextReentrant]_vars

\* The driver of the controller tree with cleanups that register cleanups while
\* their scope is torn down.
NextTeardown ==
    \/ \E c \in Ctrls : DoOnAbort(c)
    \/ \E c \in Ctrls : DoOnAbortAdder(c)
    \/ \E c \in Ctrls : DoCreateController(c)
    \/ \E c \in Ctrls : DoAbort(c)

SpecTeardown == Init /\ [][NextTeardown]_vars

\* ctrl.createAbortSwitchWrapper() of effect-util.ts
DoUtilCreateWrapper(c) ==
    /\ Len(wrapperScope) < MaxWrap
    /\ Commit(UtilCreateAbortSwitchWrapper(Heap, c), "createWrapper", c)

\* wrapper(f)() of effect-util.ts
DoUtilInvoke(w, f) ==
    /\ Cardinality(Switched) < MaxInvoke
    /\ Commit(UtilWrappedFn(Heap, w, f), "invoke", w)

\* ctrl.action(() => request, cleanup) of effect-util.ts
DoUtilAction(c) ==
    /\ Len(actions) < MaxAction
    /\ Commit(UtilAction(Heap, c), "action", Len(actions) + 1)

\* The driver of effect-util.ts controllers with switch wrappers.
NextUtilSwitch ==
    \/ \E c \in Ctrls : DoUtilCreateWrapper(c)
    \/ \E w \in Wrappers : \E f \in Callbacks : DoUtilInvoke(w, f)
    \/ \E c \in Ctrls : DoAbort(c)

SpecUtilSwitch == InitClosure /\ [][NextUtilSwitch]_vars

\* The driver of effect-util.ts controllers with actions in flight.
NextUtilAction ==
    \/ \E c \in Ctrls : DoClosureCreateController(c)
    \/ \E c \in Ctrls : DoUtilAction(c)
    \/ \E a \in Actions : \E out \in Values \cup {Fail} : DoSettle(a, out)
    \/ \E c \in Ctrls : DoAbort(c)

SpecUtilAction == InitClosure /\ [][NextUtilAction]_vars

\* store.fetch(ctrl), on a store not used before.
DoFetch(c, impl) ==
    /\ Len(actions) < MaxAction
    /\ Commit(Fetch(Heap, c, impl), "fetch", Len(actions) + 1)

\* The continuation of fetch after `await txn.actAsync(...)`; a rejected
\* promise makes fetch throw there instead.
DoFetchThen(a) ==
    /\ store[a].fetch /\ ~store[a].done
    /\ actions[a].status = "returned"
    /\ Commit(FetchThen(Heap, a), "fetchThen", a)

\* The driver of user stores: fetch calls, the settling of their requests, the
\* continuations of fetch, abort of the scopes.
NextStore ==
    \/ \E c \in Ctrls : \E i \in Impls : DoFetch(c, i)
    \/ \E a \in Actions : \E out \in Values \cup {Fail} : DoSettle(a, out)
    \/ \E a \in Actions : DoFetchThen(a)
    \/ \E c \in Ctrls : DoAbort(c)

SpecStore == Init /\ [][NextStore]_vars

\* The driver of a tree of abort.ts controllers.
NextAbortTs ==
    \/ \E c \in Ctrls : DoOnAbort(c)
    \/ \E k \in Cleanups : DoCleanupNow(k)
    \/ \E c \in Ctrls : DoClosureCreateController(c)
    \/ \E c \in Ctrls : DoAbortReverse(c)

SpecAbortTs == InitClosure /\ [][NextAbortTs]_vars

\* The driver of the controller tree with cleanups that remove an earlier cleanup.
NextRemover ==
    \/ \E c \in Ctrls : DoOnAbort(c)
    \/ \E c \in Ctrls : DoOnAbortRemover(c)
    \/ \E c \in Ctrls : DoCreateController(c)
    \/ \E c \in Ctrls : DoAbort(c)

SpecRemover == Init /\ [][NextRemover]_vars

\* The driver of the controller tree with cleanups that abort their own scope.
NextReabort ==
    \/ \E c \in Ctrls : DoOnAbort(c)
    \/ \E c \in Ctrls : DoOnAbortReabort(c)
    \/ \E c \in Ctrls : DoCreateController(c)
    \/ \E c \in Ctrls : DoAbortBounded(c)

SpecReabort == Init /\ [][NextReabort]_vars

\* The driver of the controller tree with cleanups that throw.
NextThrow ==
    \/ \E c \in Ctrls : DoOnAbort(c)
    \/ \E c \in Ctrls : DoOnAbortThrower(c)
    \/ \E c \in Ctrls : DoCreateController(c)
    \/ \E c \in Ctrls : DoAbortBounded(c)

SpecThrow == Init /\ [][NextThrow]_vars

(***************************************************************************)
(* What the claims speak of.                                               *)
(***************************************************************************)

\* How often user cleanup k occurs in an execution trace.
CountIn(tr, k) == Cardinality({i \in 1..Len(tr) : tr[i] = k})
Count(k) == CountIn(trace, k)
Ran(k) == Count(k) >= 1

\* a is a proper ancestor of c in the tree of createController calls.
RECURSIVE IsAncestor(_, _)
IsAncestor(a, c) ==
    LET p == ctrlInfo[c].parent
    IN  p # 0 /\ (p = a \/ IsAncestor(a, p))

Subtree(c) == {d \in Ctrls : d = c \/ IsAncestor(c, d)}

\* The children a wrapper has created so far.
ChildrenOf(w) == {c \in Ctrls : ctrlInfo[c].wrapper = w}

\* C1: every registered cleanup is executed at most once over the whole run,
\* whether its scope was aborted directly or by an ancestor's cascade, and an
\* abort() call on a controller that is already aborted executes nothing.
C1_ExecutedAtMostOnce ==
    /\ [](\A k \in Cleanups : Count(k) <= 1)
    /\ [][(lastOp'.op = "abort" /\ aborted[lastOp'.arg]) => trace' = trace]_vars

\* C1 witness: abort() has just been called again on a controller whose earlier
\* abort ran a cleanup (a later cleanup was registered on it after that abort).
C1_Witness ==
    /\ lastOp.op = "abort"
    /\ \E k1, k2 \in Cleanups :
          /\ registered[k1].scope = lastOp.arg /\ Count(k1) = 1
          /\ registered[k2].scope = lastOp.arg /\ ~registered[k2].live

\* C2: abort() that returns leaves the scope aborted, and on an aborted scope
\* every cleanup that was registered, on it or on a scope of its subtree, and
\* not removed, has been executed (a cleanup handed to onAbort of a scope that
\* was aborted already is not counted as registered).
C2_Barrier ==
    /\ (lastOp.op = "abort" /\ lastOp.err = NoErr) => aborted[lastOp.arg]
    /\ \A c \in Ctrls : aborted[c] =>
          \A k \in Cleanups :
              (registered[k].scope \in Subtree(c) /\ registered[k].live /\ k \notin removed)
                  => Ran(k)

\* C3: cleanups registered on one scope are executed in reverse registration
\* order: of two cleanups of a scope the later registered one runs first.
C3_Lifo ==
    \A a, b \in Cleanups :
        (a < b /\ registered[a].scope = registered[b].scope) =>
            \A i, j \in 1..Len(trace) : (trace[i] = a /\ trace[j] = b) => j < i

\* C3 witness: two cleanups of one scope have both been executed.
C3_Witness ==
    \E a, b \in Cleanups :
        a < b /\ registered[a].scope = registered[b].scope /\ Ran(a) /\ Ran(b)

\* C4: every cleanup of a descendant scope is executed before any cleanup
\* registered on an ancestor, at every level of the tree.
C4_ChildrenFirst ==
    \A a, d \in Cleanups :
        IsAncestor(registered[a].scope, registered[d].scope) =>
            \A i, j \in 1..Len(trace) : (trace[i] = a /\ trace[j] = d) => j < i

\* C4 witness: a cleanup of a scope and a cleanup of its grandchild have both
\* been executed.
C4_Witness ==
    \E a, d \in Cleanups :
        /\ Ran(a) /\ Ran(d)
        /\ ctrlInfo[registered[d].scope].parent # 0
        /\ ctrlInfo[ctrlInfo[registered[d].scope].parent].parent = registered[a].scope

\* C5: an aborted child is no longer in its parent's child list, and abort() of
\* a parent one of whose children was aborted before does not throw and
\* executes none of the cleanups of that child's subtree.
C5_IndependentChildAbort ==
    /\ [](\A c \in Ctrls :
            (aborted[c] /\ ctrlInfo[c].parent # 0) =>
                IndexOf(childControllers[ctrlInfo[c].parent], c) = 0)
    /\ [][lastOp'.op = "abort" =>
            \A c \in Ctrls :
                (ctrlInfo[c].parent = lastOp'.arg /\ aborted[c]) =>
                    /\ lastOp'.err = NoErr
                    /\ \A k \in Cleanups :
                          registered[k].scope \in Subtree(c) =>
                              CountIn(trace', k) = Count(k)]_vars

\* C5 witness: a child was aborted on its own (a cleanup was registered on it
\* after that), and abort() of its parent, still live afterwards, has just
\* returned and run a cleanup of the parent.
C5_Witness ==
    /\ lastOp.op = "abort" /\ lastOp.err = NoErr
    /\ \E k, a \in Cleanups :
          /\ k < a
          /\ ctrlInfo[registered[k].scope].parent = lastOp.arg /\ ~registered[k].live
          /\ registered[a].scope = lastOp.arg /\ registered[a].live /\ Ran(a)

\* C6: a cleanup taken off the list by its remove function is never executed,
\* and calling the remove function of a cleanup that was removed or has run
\* changes nothing.
C6_RemovalSuppresses ==
    /\ [](\A k \in removed : ~Ran(k))
    /\ [][(lastOp'.op = "remove" /\ (lastOp'.arg \in removed \/ Ran(lastOp'.arg))) =>
            UNCHANGED <<ctrlInfo, cleanupCallbacks, childControllers, aborted,
                        registered, removed, wrapperScope, currCtrl, trace>>]_vars

\* C6 witness: a cleanup was removed while its scope was live, the scope has
\* been aborted since, and the remove function has just been called again.
C6_Witness ==
    /\ lastOp.op = "remove" /\ lastOp.arg \in removed
    /\ registered[lastOp.arg].live
    /\ aborted[registered[lastOp.arg].scope]

\* C7: createController on an aborted controller throws and creates no child.
C7_GuardedCreation ==
    [][(lastOp'.op = "createController" /\ aborted[lastOp'.arg]) =>
          /\ lastOp'.err = ErrAbortedCreate
          /\ UNCHANGED <<ctrlInfo, cleanupCallbacks, childControllers, aborted>>]_vars

\* C7 witness: createController has just thrown on an aborted controller.
C7_Witness ==
    /\ lastOp.op = "createController" /\ lastOp.err = ErrAbortedCreate
    /\ aborted[lastOp.arg]

\* C8: a child made by a wrapped function is a child of the wrapper's scope and
\* its callback ran on it; every child but the wrapper's latest is aborted; all
\* are aborted once the wrapper's scope is; and the cleanup a callback run
\* registered has been executed exactly once when its child is aborted, not at
\* all before.
C8_SwitchSemantics ==
    \A c \in Switched :
        LET w == ctrlInfo[c].wrapper
            mine == {k \in Cleanups : registered[k].scope = c /\ registered[k].byCallback}
        IN  /\ ctrlInfo[c].parent = wrapperScope[w]
            /\ Cardinality(mine) = IF ctrlInfo[c].cb = "home" THEN 1 ELSE 0
            /\ currCtrl[w] # c => aborted[c]
            /\ aborted[wrapperScope[w]] => aborted[c]
            /\ \A k \in mine : Count(k) = IF aborted[c] THEN 1 ELSE 0

\* C8 witness: after three invocations of a wrapper's functions, abort() of the
\* wrapper's scope has just returned, and the three callback cleanups have run.
C8_Witness ==
    \E w \in Wrappers :
        /\ lastOp.op = "abort" /\ lastOp.arg = wrapperScope[w] /\ lastOp.err = NoErr
        /\ Cardinality({k \in Cleanups : /\ registered[k].byCallback
                                         /\ registered[k].scope \in ChildrenOf(w)
                                         /\ Count(k) = 1}) = 3

\* C9: at most one of the children ever created through a wrapper is not aborted.
C9_AtMostOneLive ==
    \A w \in Wrappers : Cardinality({c \in ChildrenOf(w) : ~aborted[c]}) <= 1

\* C9 witness: a wrapped function has just been invoked; its wrapper has one
\* live child and two aborted ones.
C9_Witness ==
    /\ lastOp.op = "invoke" /\ lastOp.err = NoErr
    /\ Cardinality({c \in ChildrenOf(lastOp.arg) : ~aborted[c]}) = 1
    /\ Cardinality({c \in ChildrenOf(lastOp.arg) : aborted[c]}) = 2

\* C10: invoking any function of a wrapper aborts the child made by the latest
\* invocation of any of them, whichever callback made it, runs the cleanups
\* registered on that child, and leaves a fresh live child in the cell.
C10_SharedSlot ==
    [][(lastOp'.op = "invoke" /\ lastOp'.err = NoErr) =>
          LET w == lastOp'.arg
              prev == currCtrl[w]
              next == currCtrl'[w]
          IN  /\ next = Len(ctrlInfo') /\ next > Len(ctrlInfo)
              /\ ctrlInfo'[next].wrapper = w /\ ~aborted'[next]
              /\ prev # 0 =>
                    /\ aborted'[prev]
                    /\ \A k \in Cleanups :
                          registered[k].scope = prev => CountIn(trace', k) = 1]_vars

\* C10 witness: the /foo loader has just been invoked and holds the live child;
\* the child the home loader made before is aborted and its cleanup has run.
C10_Witness ==
    /\ lastOp.op = "invoke" /\ lastOp.err = NoErr
    /\ currCtrl[lastOp.arg] # 0
    /\ ctrlInfo[currCtrl[lastOp.arg]].cb = "foo"
    /\ \E c \in ChildrenOf(lastOp.arg) :
          /\ c = currCtrl[lastOp.arg] - 1
          /\ ctrlInfo[c].cb = "home" /\ aborted[c]
          /\ \E k \in Cleanups : registered[k].scope = c /\ Ran(k)

\* C11: a wrapped function called after the wrapper's scope was aborted throws
\* createController's error; no controller is made and the callback does not run.
C11_InvokeAfterAbort ==
    [][(lastOp'.op = "invoke" /\ aborted[wrapperScope[lastOp'.arg]]) =>
          /\ lastOp'.err = ErrAbortedCreate
          /\ UNCHANGED <<ctrlInfo, cleanupCallbacks, childControllers, aborted,
                         registered, currCtrl, trace>>]_vars

\* C11 witness: a wrapper that had made a child was invoked again after its
\* scope was aborted, and the call has just thrown.
C11_Witness ==
    /\ lastOp.op = "invoke" /\ lastOp.err = ErrAbortedCreate
    /\ aborted[wrapperScope[lastOp.arg]]
    /\ ChildrenOf(lastOp.arg) # {}

\* C17: the aborted flag is false at creation, true once abort() has returned,
\* and never goes from true back to false.
C17_AbortedMonotonic ==
    /\ aborted = <<FALSE>>
    /\ [](lastOp.op = "abort" /\ lastOp.err = NoErr => aborted[lastOp.arg])
    /\ [][/\ \A c \in Ctrls : aborted[c] => aborted'[c]
          /\ \A c \in 1..Len(ctrlInfo') : c > Len(ctrlInfo) => ~aborted'[c]]_vars

\* C17 witness: a controller created by createController was aborted, and a
\* later call (an onAbort on it) has left it aborted.
C17_Witness ==
    /\ lastOp.op = "onAbort" /\ aborted[lastOp.arg]
    /\ ctrlInfo[lastOp.arg].parent # 0

\* C18: when abort() on a scope has returned, the scope and every scope of its
\* subtree are aborted.
C18_CascadeFlags ==
    (lastOp.op = "abort" /\ lastOp.err = NoErr) =>
        \A d \in Subtree(lastOp.arg) : aborted[d]

\* seq without the entries equal to x.
Without(seq, x) == SelectSeq(seq, LAMBDA y : y # x)

\* C19: abort() on a child leaves every scope outside the child's subtree as it
\* was, but for the child leaving its parent's child list: flags and cleanup
\* lists unchanged, and only cleanups of the child's subtree executed.
C19_ChildAbortFrame ==
    [][(lastOp'.op = "abort" /\ ctrlInfo[lastOp'.arg].parent # 0) =>
          LET c == lastOp'.arg
          IN  /\ \A d \in Ctrls \ Subtree(c) :
                    /\ aborted'[d] = aborted[d]
                    /\ cleanupCallbacks'[d] = cleanupCallbacks[d]
                    /\ childControllers'[d] =
                          IF d = ctrlInfo[c].parent
                          THEN Without(childControllers[d], c)
                          ELSE childControllers[d]
              /\ Len(trace') >= Len(trace)
              /\ \A i \in 1..Len(trace') :
                    IF i <= Len(trace) THEN trace'[i] = trace[i]
                    ELSE registered[trace'[i]].scope \in Subtree(c)]_vars

\* C19 witness: abort() of a child has just run the child's cleanup; its parent
\* is live with a cleanup still registered, and a live sibling is still in the
\* parent's child list.
C19_Witness ==
    /\ lastOp.op = "abort" /\ aborted[lastOp.arg]
    /\ LET c == lastOp.arg
           p == ctrlInfo[c].parent
       IN  /\ p # 0 /\ ~aborted[p]
           /\ \E d \in Ctrls :
                 d # c /\ ctrlInfo[d].parent = p /\ ~aborted[d]
                 /\ IndexOf(childControllers[p], d) >= 1
           /\ \E k1, k2 \in Cleanups :
                 /\ registered[k1].scope = c /\ Ran(k1)
                 /\ registered[k2].scope = p /\ IndexOf(cleanupCallbacks[p], User(k2)) >= 1

\* C20: no scope that is not aborted has an aborted ancestor, also when a
\* cleanup callback created the child while its parent's sweep was running.
C20_StrongOwnership ==
    \A d \in Ctrls : ~aborted[d] => \A a \in Ctrls : IsAncestor(a, d) => ~aborted[a]

\* C12: an actAsync with a cleanup whose scope was aborted while its promise was
\* pending has had its cleanup executed exactly once when its result resolves,
\* in both implementations; no cleanup of an actAsync is ever executed twice.
C12_RaceSafety ==
    /\ [](\A a \in Actions : actions[a].kind = "actAsync" => Len(actions[a].ran) <= 1)
    /\ [][\A a \in Actions :
            (/\ actions[a].status = "pending" /\ actions[a].hasCleanup
             /\ aborted[actions[a].scope]
             /\ lastOp'.op = "settle" /\ lastOp'.arg = a /\ lastOp'.err = NoErr)
            => Len(actions'[a].ran) = 1]_vars

\* C12 witness: the scope was aborted with an actAsync of each implementation
\* pending; both have resolved and each cleanup ran once.
C12_Witness ==
    \E a, b \in Actions :
        /\ actions[a].impl = "effect" /\ actions[b].impl = "package"
        /\ \A x \in {a, b} :
              /\ actions[x].kind = "actAsync" /\ actions[x].live
              /\ actions[x].status = "returned" /\ actions[x].result.aborted
              /\ Len(actions[x].ran) = 1

\* C13: act and actAsync called on an aborted scope never invoke produce,
\* leave the scope's cleanup list as it was, and give a result with aborted = true.
C13_AbortedScopeNoAction ==
    /\ [](\A a \in Actions : ~actions[a].live =>
             /\ actions[a].produced = 0 /\ actions[a].ran = <<>>
             /\ actions[a].status = "returned" /\ actions[a].result.aborted)
    /\ [][\A a \in 1..Len(actions') :
            (a > Len(actions) /\ ~actions'[a].live) =>
                cleanupCallbacks' = cleanupCallbacks]_vars

\* C13 witness: an act and an actAsync were called with a cleanup on an aborted scope.
C13_Witness ==
    \E a, b \in Actions :
        /\ actions[a].kind = "act" /\ actions[b].kind = "actAsync"
        /\ \A x \in {a, b} : ~actions[x].live /\ actions[x].hasCleanup

\* C14: act on a scope that is not aborted has invoked produce exactly once when
\* it returns and returns aborted = false with the produced value; its cleanup
\* runs only in the abort of the scope, once, with exactly the produced value,
\* and not at all when removeCleanup was called first.
C14_ActCleanupGetsValue ==
    \A a \in Actions :
        (actions[a].kind = "act" /\ actions[a].live) =>
            /\ actions[a].produced = 1
            /\ actions[a].outcome # Fail =>
                  /\ actions[a].status = "returned"
                  /\ actions[a].result.aborted = FALSE
                  /\ actions[a].result.value = actions[a].outcome
                  /\ actions[a].hasCleanup =>
                        /\ ~aborted[actions[a].scope] => actions[a].ran = <<>>
                        /\ actions[a].removed => actions[a].ran = <<>>
                        /\ (aborted[actions[a].scope] /\ ~actions[a].removed) =>
                               actions[a].ran = <<actions[a].outcome>>

\* C14 witness: the scope was aborted after two acts with a cleanup; the cleanup
\* of one ran with the produced value, the other had been removed and did not run.
C14_Witness ==
    \E a, b \in Actions :
        /\ actions[a].kind = "act" /\ actions[b].kind = "act"
        /\ actions[a].hasCleanup /\ actions[b].hasCleanup
        /\ aborted[actions[a].scope] /\ aborted[actions[b].scope]
        /\ actions[a].ran = <<actions[a].outcome>> /\ actions[a].outcome \in Values
        /\ actions[b].removed /\ actions[b].ran = <<>>

\* C15: when the continuation of actAsync runs, result.aborted is the scope's
\* _aborted flag at that moment; a result with aborted = false carries the
\* resolved value and a removeCleanup that takes the cleanup off the scope's
\* list, after which the cleanup never runs.
C15_SettleTimeState ==
    /\ [][\A a \in Actions :
            (/\ actions[a].status = "pending"
             /\ lastOp'.op = "settle" /\ lastOp'.arg = a /\ lastOp'.err = NoErr)
            => /\ actions'[a].result.aborted = aborted[actions[a].scope]
               /\ ~aborted[actions[a].scope] =>
                     /\ actions'[a].result.value = actions'[a].outcome
                     /\ actions'[a].hasCleanup =>
                           /\ actions'[a].result.handle = "remove"
                           /\ IndexOf(cleanupCallbacks'[actions[a].scope],
                                      ActionCleanup(a)) >= 1]_vars
    /\ [][\A a \in Actions :
            (/\ lastOp'.op = "removeCleanup" /\ lastOp'.arg = a
             /\ actions[a].kind = "actAsync" /\ ~actions[a].result.aborted)
            => IndexOf(cleanupCallbacks'[actions[a].scope], ActionCleanup(a)) = 0]_vars
    /\ [](\A a \in Actions :
            (actions[a].kind = "actAsync" /\ actions[a].removed) => actions[a].ran = <<>>)

\* C15 witness: two actAsync were pending on a live scope; one resolved before
\* the abort (aborted = false, the value), the other after it (aborted = true).
C15_Witness ==
    \E a, b \in Actions :
        /\ actions[a].kind = "actAsync" /\ actions[b].kind = "actAsync"
        /\ actions[a].live /\ actions[b].live
        /\ actions[a].status = "returned" /\ actions[b].status = "returned"
        /\ ~actions[a].result.aborted /\ actions[a].result.value \in Values
        /\ actions[b].result.aborted
        /\ lastOp.op = "settle" /\ lastOp.arg = b

\* C16: after produce threw (act) or its promise rejected (actAsync), no cleanup
\* of the failed action is on the scope's list of registered cleanups.
C16_NoPartialState ==
    \A a \in Actions :
        actions[a].status = "failed" =>
            IndexOf(cleanupCallbacks[actions[a].scope], ActionCleanup(a)) = 0

\* C21: when abort() on a scope has returned without throwing, the scope's child
\* list is empty.
C21_ChildListEmpty ==
    (lastOp.op = "abort" /\ lastOp.err = NoErr) => childControllers[lastOp.arg] = <<>>

\* C22: onAbort on a scope that is already aborted does not throw and executes
\* nothing, and a cleanup registered that way is never executed.
C22_LateOnAbortInert ==
    /\ [](\A k \in Cleanups : ~registered[k].live => ~Ran(k))
    /\ [][(lastOp'.op = "onAbort" /\ aborted[lastOp'.arg]) =>
             (lastOp'.err = NoErr /\ trace' = trace)]_vars

\* C22 witness: abort() of a scope has just run the scope's cleanup; a cleanup
\* was handed to onAbort of a descendant after that descendant was aborted.
C22_Witness ==
    /\ lastOp.op = "abort" /\ lastOp.err = NoErr
    /\ \E k, k1 \in Cleanups :
          /\ ~registered[k].live /\ IsAncestor(lastOp.arg, registered[k].scope)
          /\ registered[k1].scope = lastOp.arg /\ trace = <<k1>>

\* C23: the cleanup list of an aborted scope is empty in every state.
C23_AbortedListEmpty ==
    \A c \in Ctrls : aborted[c] => cleanupCallbacks[c] = <<>>

\* C27: in one abort() call, of two children of one parent the later created
\* one is aborted first: every cleanup of its subtree the call executes comes
\* before every cleanup of the earlier created child's subtree it executes.
C27_NewestChildFirst ==
    [][lastOp'.op = "abort" =>
          \A i, j \in (Len(trace) + 1)..Len(trace') :
              i < j =>
                  ~ \E c1, c2 \in Ctrls :
                        /\ c1 < c2 /\ ctrlInfo[c1].parent # 0
                        /\ ctrlInfo[c1].parent = ctrlInfo[c2].parent
                        /\ registered[trace'[i]].scope \in Subtree(c1)
                        /\ registered[trace'[j]].scope \in Subtree(c2)]_vars

\* C27 witness: abort() of a parent has just executed one cleanup of each of its
\* two children, the cleanup of the later created child first.
C27_Witness ==
    /\ lastOp.op = "abort" /\ lastOp.err = NoErr
    /\ \E c1, c2 \in Ctrls : \E k1, k2 \in Cleanups :
          /\ c1 < c2
          /\ ctrlInfo[c1].parent = lastOp.arg /\ ctrlInfo[c2].parent = lastOp.arg
          /\ registered[k1].scope = c1 /\ registered[k2].scope = c2
          /\ trace = <<k2, k1>>

\* C24: an abort() call that leaves the scope's cleanup list non-empty raises
\* 'cleanup callbacks not empty' and does not mark the scope aborted, and a
\* cleanup registered during the call has not been executed by it and is still
\* on the list of its scope.
C24_NonEmptyRaises ==
    [][(lastOp'.op = "abort" /\ ~aborted[lastOp'.arg]) =>
          /\ cleanupCallbacks'[lastOp'.arg] # <<>> =>
                (lastOp'.err = ErrNotEmpty /\ ~aborted'[lastOp'.arg])
          /\ \A k \in 1..Len(registered') :
                k > Len(registered) =>
                    /\ CountIn(trace', k) = 0
                    /\ IndexOf(cleanupCallbacks'[registered'[k].scope], User(k)) >= 1
                    /\ lastOp'.err = ErrNotEmpty]_vars

\* C24 witness: abort() has just thrown 'cleanup callbacks not empty'; a cleanup
\* of the scope ran and the cleanup it registered is on the list, not executed.
C24_Witness ==
    /\ lastOp.op = "abort" /\ lastOp.err = ErrNotEmpty
    /\ \E k, g \in Cleanups :
          /\ registered[k].scope = lastOp.arg /\ Ran(k) /\ ~registered[k].byCallback
          /\ registered[g].scope = lastOp.arg /\ registered[g].byCallback /\ ~Ran(g)
          /\ cleanupCallbacks[lastOp.arg] = <<User(g)>>

\* C25: a cleanup that calls aborted() on its scope after another cleanup of that
\* scope has been executed sees true.
C25_AtomicAbort ==
    \A o \in observed : o.swept => o.aborted

\* C26: the result of race exists only once the promise has settled; it carries
\* the promise's value and the controller's aborted flag as it is at that
\* moment, whatever it was when race was called; neither the race call nor its
\* continuation aborts a controller, runs a cleanup or registers one.
C26_RaceReportsSettleState ==
    /\ [](\A a \in Actions :
            (actions[a].kind = "race" /\ actions[a].status = "pending") =>
                actions[a].result = NoResult)
    /\ [][\A a \in Actions :
            (/\ actions[a].kind = "race" /\ actions[a].status = "pending"
             /\ lastOp'.op = "settle" /\ lastOp'.arg = a /\ lastOp'.err = NoErr)
            => /\ actions'[a].outcome \in Values
               /\ actions'[a].result =
                     [aborted |-> aborted[actions[a].scope],
                      value |-> actions'[a].outcome, handle |-> "none"]]_vars
    /\ [][(\/ lastOp'.op = "race"
           \/ lastOp'.op = "settle" /\ actions[lastOp'.arg].kind = "race") =>
             /\ UNCHANGED <<aborted, cleanupCallbacks, childControllers, trace>>
             /\ \A b \in Actions : actions'[b].ran = actions[b].ran]_vars

\* C26 witness: one race called on a live controller resolved after the abort
\* with aborted = true, another resolved before the abort with aborted = false.
C26_Witness ==
    \E a, b \in Actions :
        /\ actions[a].kind = "race" /\ actions[b].kind = "race"
        /\ actions[a].live /\ actions[a].status = "returned" /\ actions[a].result.aborted
        /\ actions[b].status = "returned" /\ ~actions[b].result.aborted
        /\ actions[b].result.value \in Values

\* C28: actAsync of the package on a scope that is not aborted has invoked
\* produce and put its cleanup on the scope's list when it returns its promise,
\* and an abort() of the scope while that promise is pending executes the cleanup.
C28_PackageRegistersAtCall ==
    /\ [][\A a \in 1..Len(actions') :
            (/\ a > Len(actions) /\ actions'[a].kind = "actAsync"
             /\ actions'[a].impl = "package" /\ actions'[a].live
             /\ actions'[a].hasCleanup)
            => /\ actions'[a].produced = 1 /\ actions'[a].status = "pending"
               /\ IndexOf(cleanupCallbacks'[actions'[a].scope], ActionCleanup(a)) >= 1]_vars
    /\ [][\A a \in Actions :
            (/\ actions[a].kind = "actAsync" /\ actions[a].impl = "package"
             /\ actions[a].hasCleanup /\ actions[a].status = "pending"
             /\ lastOp'.op = "abort" /\ lastOp'.arg = actions[a].scope
             /\ ~aborted[actions[a].scope])
            => /\ actions[a].ran = <<>> /\ Len(actions'[a].ran) = 1
               /\ aborted'[actions[a].scope]]_vars

\* C28 witness: abort() has just executed the cleanup of a pending actAsync of
\* the package.
C28_Witness ==
    /\ lastOp.op = "abort" /\ lastOp.err = NoErr
    /\ \E a \in Actions :
          /\ actions[a].kind = "actAsync" /\ actions[a].impl = "package"
          /\ actions[a].status = "pending" /\ actions[a].scope = lastOp.arg
          /\ Len(actions[a].ran) = 1

\* C29: every pending actAsync or race leaves the pending state once its promise
\* settles, aborted scope or not; abort() changes neither the progress of an
\* operation nor the fact that produce was invoked, and a promise that settles
\* with a value always gives the caller a result.
C29_NeverBlocks ==
    /\ \A a \in 1..MaxAction :
          (a \in Actions /\ actions[a].status = "pending")
              ~> (a \in Actions /\ actions[a].status # "pending")
    /\ [][lastOp'.op = "abort" =>
             \A a \in Actions :
                 /\ actions'[a].status = actions[a].status
                 /\ actions'[a].produced = actions[a].produced]_vars
    /\ [][\A a \in Actions :
            (/\ actions[a].status = "pending" /\ lastOp'.op = "settle"
             /\ lastOp'.arg = a /\ lastOp'.err = NoErr)
            => (actions'[a].status = "returned" /\ actions'[a].result # NoResult)]_vars

\* C29 witness: an actAsync and a race were pending when their scope was
\* aborted; both have given their caller a result since.
C29_Witness ==
    /\ lastOp.op = "settle"
    /\ \E a, b \in Actions :
          /\ actions[a].kind = "actAsync" /\ actions[b].kind = "race"
          /\ \A x \in {a, b} :
                /\ actions[x].live /\ actions[x].status = "returned"
                /\ actions[x].result.aborted
          /\ actions[a].produced = 1

\* C30: actAsync of effect.ts has nothing registered and has run no cleanup while
\* its promise is pending; its continuation on an aborted scope calls the
\* cleanup at once with the resolved value and gives {aborted: true} without a
\* value; on a scope that is not aborted it registers the cleanup, which is not
\* invoked before the scope aborts.
C30_EffectRegistersAtSettle ==
    /\ [](\A a \in Actions :
            (actions[a].kind = "actAsync" /\ actions[a].impl = "effect") =>
                /\ actions[a].status = "pending" =>
                      /\ actions[a].ran = <<>>
                      /\ IndexOf(cleanupCallbacks[actions[a].scope], ActionCleanup(a)) = 0
                /\ ~aborted[actions[a].scope] => actions[a].ran = <<>>)
    /\ [][\A a \in Actions :
            (/\ actions[a].kind = "actAsync" /\ actions[a].impl = "effect"
             /\ actions[a].hasCleanup /\ actions[a].status = "pending"
             /\ lastOp'.op = "settle" /\ lastOp'.arg = a /\ lastOp'.err = NoErr)
            => IF aborted[actions[a].scope]
               THEN /\ actions'[a].ran = <<actions'[a].outcome>>
                    /\ actions'[a].result = AbortedResult
                    /\ cleanupCallbacks' = cleanupCallbacks
               ELSE /\ actions'[a].ran = <<>>
                    /\ ~actions'[a].result.aborted
                    /\ cleanupCallbacks'[actions[a].scope] =
                          Append(cleanupCallbacks[actions[a].scope], ActionCleanup(a))]_vars

\* C30 witness: the continuation of an actAsync of effect.ts has just run on an
\* aborted scope and called the cleanup; the cleanup of another one, resolved
\* before the abort, was executed by the abort.
C30_Witness ==
    /\ lastOp.op = "settle" /\ lastOp.err = NoErr
    /\ \E a, b \in Actions :
          /\ a # b /\ lastOp.arg = a
          /\ \A x \in {a, b} :
                /\ actions[x].kind = "actAsync" /\ actions[x].impl = "effect"
                /\ actions[x].live /\ actions[x].ran = <<actions[x].outcome>>
          /\ actions[a].result = AbortedResult
          /\ ~actions[b].result.aborted

\* The scopes from c down to its descendant d, both included.
Path(c, d) == {e \in Ctrls : (e = c \/ IsAncestor(c, e)) /\ (e = d \/ IsAncestor(e, d))}

\* C36: an abort() call in which a cleanup throws ends with that exception; the
\* scope and every scope between it and the scope of the throwing cleanup stay
\* not aborted; the list of that scope keeps the throwing cleanup and all
\* entries registered before it; and abort() of a scope whose topmost cleanup
\* throws executes that cleanup again.
C36_ThrowingCleanup ==
    [][(lastOp'.op = "abort" /\ ~aborted[lastOp'.arg]) =>
          /\ lastOp'.err \in {NoErr, ErrCleanup}
          /\ lastOp'.err = ErrCleanup =>
                \E k \in Cleanups :
                    LET d == registered[k].scope
                        idx == IndexOf(cleanupCallbacks[d], Thrower(k))
                    IN  /\ d \in Subtree(lastOp'.arg) /\ idx >= 1
                        /\ trace'[Len(trace')] = k
                        /\ CountIn(trace', k) = Count(k) + 1
                        /\ cleanupCallbacks'[d] = SubSeq(cleanupCallbacks[d], 1, idx)
                        /\ \A e \in Path(lastOp'.arg, d) : ~aborted'[e]
          /\ \A k \in Cleanups :
                (/\ childControllers[lastOp'.arg] = <<>>
                 /\ Len(cleanupCallbacks[lastOp'.arg]) >= 1
                 /\ cleanupCallbacks[lastOp'.arg][Len(cleanupCallbacks[lastOp'.arg])]
                       = Thrower(k))
                => (lastOp'.err = ErrCleanup /\ CountIn(trace', k) = Count(k) + 1)]_vars

\* C36 witness: abort() of a parent has just failed with the exception of a
\* cleanup of its child, which had thrown in an earlier abort() already; a
\* cleanup registered on the child before the throwing one is still registered.
C36_Witness ==
    /\ lastOp.op = "abort" /\ lastOp.err = ErrCleanup
    /\ \E k, j \in Cleanups :
          /\ j < k /\ registered[j].scope = registered[k].scope
          /\ ctrlInfo[registered[k].scope].parent = lastOp.arg
          /\ Count(k) = 2 /\ Count(j) = 0
          /\ IndexOf(cleanupCallbacks[registered[k].scope], User(j)) >= 1
          /\ ~aborted[lastOp.arg] /\ ~aborted[registered[k].scope]

\* C37: when abort() of a scope throws 'cleanup callbacks not empty', some
\* scope of its subtree is left not aborted, with an empty child list and with
\* exactly the cleanups registered during the call on its list; and abort() of
\* a scope that is not aborted, has no children and holds only such plain
\* cleanups executes each of them once, empties the list, marks the scope
\* aborted and returns normally.
C37_RetryAfterNotEmpty ==
    [][(lastOp'.op = "abort" /\ ~aborted[lastOp'.arg]) =>
          /\ lastOp'.err = ErrNotEmpty =>
                \E d \in Subtree(lastOp'.arg) :
                    /\ \A e \in Path(lastOp'.arg, d) : ~aborted'[e]
                    /\ childControllers'[d] = <<>>
                    /\ cleanupCallbacks'[d] # <<>>
                    /\ \A i \in 1..Len(cleanupCallbacks'[d]) :
                          /\ cleanupCallbacks'[d][i].kind = "user"
                          /\ cleanupCallbacks'[d][i].id > Len(registered)
                          /\ CountIn(trace', cleanupCallbacks'[d][i].id) = 0
          /\ (/\ childControllers[lastOp'.arg] = <<>>
              /\ cleanupCallbacks[lastOp'.arg] # <<>>
              /\ \A i \in 1..Len(cleanupCallbacks[lastOp'.arg]) :
                    cleanupCallbacks[lastOp'.arg][i].kind = "user")
             => /\ lastOp'.err = NoErr
                /\ aborted'[lastOp'.arg]
                /\ cleanupCallbacks'[lastOp'.arg] = <<>>
                /\ \A i \in 1..Len(cleanupCallbacks[lastOp'.arg]) :
                      CountIn(trace', cleanupCallbacks[lastOp'.arg][i].id)
                         = Count(cleanupCallbacks[lastOp'.arg][i].id) + 1]_vars

\* C37 witness: the second abort() of a scope has just returned normally and
\* marked it aborted, after executing the cleanup that a cleanup of the scope
\* registered during the first abort().
C37_Witness ==
    /\ lastOp.op = "abort" /\ lastOp.err = NoErr /\ aborted[lastOp.arg]
    /\ \E k, g \in Cleanups :
          /\ registered[k].scope = lastOp.arg /\ ~registered[k].byCallback
          /\ registered[g].scope = lastOp.arg /\ registered[g].byCallback
          /\ Count(k) = 1 /\ Count(g) = 1
          /\ trace[Len(trace)] = g
          /\ cleanupCallbacks[lastOp.arg] = <<>>

\* C38: abort() of a scope on which a cleanup removes, while it runs in the
\* sweep, a cleanup registered earlier on the same scope returns without error
\* and marks the scope aborted; the removed cleanup is not executed and every
\* other cleanup that was on the list is executed exactly once.
C38_RemovalDuringSweep ==
    [][(/\ lastOp'.op = "abort" /\ ~aborted[lastOp'.arg]
        /\ \E k \in Cleanups :
              /\ IndexOf(cleanupCallbacks[lastOp'.arg], Remover(k)) >= 1
              /\ IndexOf(cleanupCallbacks[lastOp'.arg], User(k - 1)) >= 1)
       => /\ lastOp'.err = NoErr
          /\ aborted'[lastOp'.arg]
          /\ \A k \in Cleanups :
                IndexOf(cleanupCallbacks[lastOp'.arg], Remover(k)) >= 1 =>
                    /\ CountIn(trace', k) = Count(k) + 1
                    /\ CountIn(trace', k - 1) = Count(k - 1)
          /\ \A k \in Cleanups :
                (/\ IndexOf(cleanupCallbacks[lastOp'.arg], User(k)) >= 1
                 /\ IndexOf(cleanupCallbacks[lastOp'.arg], Remover(k + 1)) = 0)
                => CountIn(trace', k) = Count(k) + 1]_vars

\* C39: abort() of a scope one of whose cleanups calls abort() of that scope
\* returns normally with the scope aborted, and no cleanup is executed more
\* than once by the call.
C39_ReentrantAbortNoOp ==
    [][(/\ lastOp'.op = "abort" /\ ~aborted[lastOp'.arg]
        /\ \E k \in Cleanups : IndexOf(cleanupCallbacks[lastOp'.arg], Reabort(k)) >= 1)
       => /\ lastOp'.err = NoErr
          /\ aborted'[lastOp'.arg]
          /\ \A k \in Cleanups : CountIn(trace', k) <= Count(k) + 1]_vars

\* C32: abort() of an abort.ts controller executes every cleanup that was
\* registered through onAbort and is still on the list, each exactly once, the
\* later registered before the earlier.
C32_ReverseSweep ==
    [][(lastOp'.op = "abort" /\ ~aborted[lastOp'.arg]) =>
          /\ \A k \in Cleanups :
                IndexOf(cleanupCallbacks[lastOp'.arg], User(k)) >= 1 =>
                    CountIn(trace', k) = Count(k) + 1
          /\ \A k1, k2 \in Cleanups :
                (/\ k1 < k2
                 /\ IndexOf(cleanupCallbacks[lastOp'.arg], User(k1)) >= 1
                 /\ IndexOf(cleanupCallbacks[lastOp'.arg], User(k2)) >= 1)
                => \E i, j \in (Len(trace) + 1)..Len(trace') :
                      i < j /\ trace'[i] = k2 /\ trace'[j] = k1]_vars

\* C33: the function onAbort of abort.ts returned, called while the cleanup is
\* registered, executes the cleanup once and takes it off the list; a cleanup
\* so called has been executed exactly once whatever is aborted afterwards.
C33_CleanupNowThenAbort ==
    /\ [][(lastOp'.op = "cleanupNow"
             /\ IndexOf(cleanupCallbacks[registered[lastOp'.arg].scope],
                        User(lastOp'.arg)) >= 1)
          => /\ CountIn(trace', lastOp'.arg) = Count(lastOp'.arg) + 1
             /\ IndexOf(cleanupCallbacks'[registered[lastOp'.arg].scope],
                        User(lastOp'.arg)) = 0
             /\ lastOp'.err = NoErr]_vars
    /\ [](\A k \in removed : Count(k) = 1)

\* C33 witness: abort() of the scope has just returned after the returned
\* function of one of its cleanups had been called; that cleanup ran once.
C33_Witness ==
    /\ lastOp.op = "abort" /\ aborted[lastOp.arg]
    /\ \E k \in removed : registered[k].scope = lastOp.arg /\ Count(k) = 1

\* C34: an action of effect-util.ts whose controller was aborted while its
\* promise was pending, and whose promise has resolved, has had its cleanup
\* executed.
C34_ActionCleanupRuns ==
    \A a \in Actions :
        (/\ actions[a].kind = "action" /\ actions[a].live
         /\ actions[a].status = "returned" /\ actions[a].result.aborted)
        => Len(actions[a].ran) = 1

\* C35: abort() of an effect-util.ts controller that has a switch wrapper with
\* a live child aborts that child, returns without throwing and marks the
\* controller aborted.
C35_AbortWithWrapper ==
    [][(/\ lastOp'.op = "abort" /\ ~aborted[lastOp'.arg]
        /\ \E w \in Wrappers :
              /\ wrapperScope[w] = lastOp'.arg /\ currCtrl[w] # 0
              /\ ~aborted[currCtrl[w]])
       => /\ \A w \in Wrappers :
                (wrapperScope[w] = lastOp'.arg /\ currCtrl[w] # 0) => aborted'[currCtrl[w]]
          /\ lastOp'.err = NoErr
          /\ aborted'[lastOp'.arg]]_vars

====
